---- MODULE Spec2Model ----
(***************************************************************************)
(* State-machine model of shaderutils.py (the shader cache container of    *)
(* the CEMU shader pack tools): the binary codec, the ShaderCache class    *)
(* and the handlers of the ShaderUtils window.                             *)
(*                                                                         *)
(* Representation of integers.  TLC's integers are 32 bits wide, so the    *)
(* 64-bit names and the 32-bit magic numbers are kept as base-256 digit    *)
(* strings, most significant digit first (the order in which the source    *)
(* writes 0xEFEFEFEFEFEFEFEF); packing them emits the digits least         *)
(* significant first, as struct does with '=' on a little-endian machine.  *)
(* Offsets and sizes are ordinary integers, packed by division.            *)
(* A Python None is the value None; the payload None is NoData.            *)
(***************************************************************************)
EXTENDS Integers, Sequences, FiniteSets, TLC

\* ------------------------------------------------------------------ bounds
MaxSel == 3
MaxOps == 3
MaxEntries == 3

\* --------------------------------------------------------------- constants
ENTRY_SIZE == 32
FILECACHE_HEADER_RESV == 128
SHADER_HEADER_SIZE == 24
FILECACHE_MAGIC == <<131, 113, 182, 148>>
FILECACHE_MAGIC_V2 == <<131, 113, 182, 149>>
SHADER_HEADER_MAGIC == <<200, 212, 121, 8>>
FILECACHE_FILETABLE_NAME1 == <<239, 239, 239, 239, 239, 239, 239, 239>>
FILECACHE_FILETABLE_NAME2 == <<254, 254, 254, 254, 254, 254, 254, 254>>
FILECACHE_FILETABLE_FREE_NAME == <<0, 0, 0, 0, 0, 0, 0, 0>>

None == [none |-> TRUE]
NoData == <<-1>>
Absent == -1
\* Integers at or above Huge are all read as Huge (they exceed every file).
Huge == 16777216

\* ------------------------------------------------------------------ helpers
Min(a, b) == IF a < b THEN a ELSE b

Reverse(s) == [i \in 1..Len(s) |-> s[Len(s) + 1 - i]]

Zeros(n) == [i \in 1..n |-> 0]

RECURSIVE Pow256(_)
Pow256(k) == IF k = 0 THEN 1 ELSE 256 * Pow256(k - 1)

\* data[begin:end] of Python: clipped to the buffer, never an error.
Slice(data, begin, end) ==
    IF begin >= Len(data) \/ end <= begin THEN <<>>
    ELSE SubSeq(data, begin + 1, Min(end, Len(data)))

RECURSIVE SumSeq(_)
SumSeq(s) == IF s = <<>> THEN 0 ELSE Head(s) + SumSeq(Tail(s))

RECURSIVE Concat(_)
Concat(ss) == IF ss = <<>> THEN <<>> ELSE Head(ss) \o Concat(Tail(ss))

\* ------------------------------------------------------------ binary codec
\* struct 'I' / 'Q' of an integer: w bytes, least significant first.
PackIntBE(n, w) == [i \in 1..w |-> IF w - i < 4 THEN (n \div Pow256(w - i)) % 256 ELSE 0]
PackInt(n, w) == [i \in 1..w |-> IF i <= 4 THEN (n \div Pow256(i - 1)) % 256 ELSE 0]

UnpackInt(b) ==
    IF \E i \in 4..Len(b) : b[i] # 0 THEN Huge
    ELSE b[1] + 256 * b[2] + 65536 * b[3]

\* struct 'I' / 'Q' of a digit string.
PackDigits(d) == Reverse(d)
UnpackDigits(b) == Reverse(b)

pack_entry_bigendian(e) ==
    e.name1 \o e.name2
      \o PackIntBE(e.file_offset, 8) \o PackIntBE(e.file_size, 4) \o PackIntBE(e.reserved, 4)
pack_entry(e) ==
    PackDigits(e.name1) \o PackDigits(e.name2)
      \o PackInt(e.file_offset, 8) \o PackInt(e.file_size, 4) \o PackInt(e.reserved, 4)

\* struct.unpack_from raises struct.error on a short buffer.
CanUnpack(data, offset, size) == offset + size <= Len(data)

unpack_entry(data, offset) ==
    [name1 |-> UnpackDigits(SubSeq(data, offset + 1, offset + 8)),
     name2 |-> UnpackDigits(SubSeq(data, offset + 9, offset + 16)),
     file_offset |-> UnpackInt(SubSeq(data, offset + 17, offset + 24)),
     file_size |-> UnpackInt(SubSeq(data, offset + 25, offset + 28)),
     reserved |-> UnpackInt(SubSeq(data, offset + 29, offset + 32))]

pack_header(h) ==
    PackDigits(h.magic) \o PackInt(h.extra_version, 4) \o PackInt(h.data_offset, 8)
      \o PackInt(h.file_table_offset, 8) \o PackInt(h.file_table_size, 4) \o Zeros(100)

unpack_header(data) ==
    [magic |-> UnpackDigits(SubSeq(data, 1, 4)),
     extra_version |-> UnpackInt(SubSeq(data, 5, 8)),
     data_offset |-> UnpackInt(SubSeq(data, 9, 16)),
     file_table_offset |-> UnpackInt(SubSeq(data, 17, 24)),
     file_table_size |-> UnpackInt(SubSeq(data, 25, 28))]

unpack_shader_header(data) ==
    [magic |-> UnpackDigits(SubSeq(data, 1, 4)),
     type |-> UnpackInt(SubSeq(data, 5, 8)),
     name1 |-> UnpackDigits(SubSeq(data, 9, 16)),
     name2 |-> UnpackDigits(SubSeq(data, 17, 24))]

\* ------------------------------------------------- the ordered entry mapping
\* An OrderedDict keyed (name1, name2) is the sequence of its values: every
\* value is stored under the key made of its own name1 and name2.
Key(e) == <<e.name1, e.name2>>
TableKey == <<FILECACHE_FILETABLE_NAME1, FILECACHE_FILETABLE_NAME2>>
FreeKey == <<FILECACHE_FILETABLE_FREE_NAME, FILECACHE_FILETABLE_FREE_NAME>>

Keys(entries) == {Key(entries[i]) : i \in 1..Len(entries)}
HasKey(entries, k) == \E i \in 1..Len(entries) : Key(entries[i]) = k
IndexOf(entries, k) == CHOOSE i \in 1..Len(entries) : Key(entries[i]) = k
Get(entries, k) == entries[IndexOf(entries, k)]

\* entries[key] = e: an existing key keeps its position, a new one goes last.
SetItem(entries, e) ==
    IF HasKey(entries, Key(e))
    THEN [entries EXCEPT ![IndexOf(entries, Key(e))] = e]
    ELSE Append(entries, e)

\* entries.update(other)
RECURSIVE Update(_, _)
Update(entries, other) ==
    IF other = <<>> THEN entries
    ELSE Update(SetItem(entries, Head(other)), Tail(other))

DelItem(entries, k) == SelectSeq(entries, LAMBDA e : Key(e) # k)

\* -------------------------------------------------------- class ShaderCache
\* A container is [header, entries, original_size].

\* ShaderCache.update_header; the caller has checked that the table entry is there.
update_header_keep_data(sc) ==
    LET file_table_size == ENTRY_SIZE * Len(sc.entries)
        table_entry == Get(sc.entries, TableKey)
        new_entry == [table_entry EXCEPT !.file_offset = 0,
                                         !.file_size = file_table_size]
    IN [sc EXCEPT !.header.file_table_offset = 0,
                  !.header.file_table_size = file_table_size,
                  !.entries = SetItem(sc.entries, new_entry)]
update_header_accumulates(sc) ==
    LET file_table_size == IF sc.header.file_table_size = Absent
                           THEN ENTRY_SIZE * Len(sc.entries)
                           ELSE sc.header.file_table_size + ENTRY_SIZE
        table_entry == Get(sc.entries, TableKey)
        new_entry == [table_entry EXCEPT !.file_offset = 0,
                                         !.file_size = file_table_size,
                                         !.data = NoData]
    IN [sc EXCEPT !.header.file_table_offset = 0,
                  !.header.file_table_size = file_table_size,
                  !.entries = SetItem(sc.entries, new_entry)]
update_header(sc) ==
    LET file_table_size == ENTRY_SIZE * Len(sc.entries)
        table_entry == Get(sc.entries, TableKey)
        new_entry == [table_entry EXCEPT !.file_offset = 0,
                                         !.file_size = file_table_size,
                                         !.data = NoData]
    IN [sc EXCEPT !.header.file_table_offset = 0,
                  !.header.file_table_size = file_table_size,
                  !.entries = SetItem(sc.entries, new_entry)]

ShaderCache_new_not_normalized ==
    [original_size |-> 0,
     header |-> [magic |-> FILECACHE_MAGIC_V2, extra_version |-> 1,
                 data_offset |-> FILECACHE_HEADER_RESV,
                 file_table_offset |-> Absent, file_table_size |-> Absent],
     entries |-> << [name1 |-> FILECACHE_FILETABLE_NAME1,
                     name2 |-> FILECACHE_FILETABLE_NAME2,
                     reserved |-> 0, file_offset |-> Absent,
                     file_size |-> Absent, data |-> NoData] >>]
\* ShaderCache(): the fresh container.
ShaderCache_new ==
    update_header(
        [original_size |-> 0,
         header |-> [magic |-> FILECACHE_MAGIC_V2, extra_version |-> 1,
                     data_offset |-> FILECACHE_HEADER_RESV,
                     file_table_offset |-> Absent, file_table_size |-> Absent],
         entries |-> << [name1 |-> FILECACHE_FILETABLE_NAME1,
                         name2 |-> FILECACHE_FILETABLE_NAME2,
                         reserved |-> 0, file_offset |-> Absent,
                         file_size |-> Absent, data |-> NoData] >>])

\* The header checks of ShaderCache(data): the two assertions.
header_accepted_v1_too(header) ==
    /\ header.magic \in {FILECACHE_MAGIC, FILECACHE_MAGIC_V2}
    /\ header.file_table_size % ENTRY_SIZE = 0
header_accepted(header) ==
    /\ header.magic = FILECACHE_MAGIC_V2
    /\ header.file_table_size % ENTRY_SIZE = 0

\* The rows of the table, as read by the generator of lines 110-111.
table_offset(header) == header.data_offset + header.file_table_offset
read_table(data, header) ==
    [n \in 1..(header.file_table_size \div ENTRY_SIZE) |->
        unpack_entry(data, table_offset(header) + ENTRY_SIZE * (n - 1))]
table_readable(data, header) ==
    \A n \in 1..(header.file_table_size \div ENTRY_SIZE) :
        CanUnpack(data, table_offset(header) + ENTRY_SIZE * (n - 1), ENTRY_SIZE)

\* OrderedDict(((e['name1'], e['name2']), e) for e in entries), then the
\* deletion of the free slot.
WithData(e, d) ==
    [name1 |-> e.name1, name2 |-> e.name2, file_offset |-> e.file_offset,
     file_size |-> e.file_size, reserved |-> e.reserved, data |-> d]
build_entries_keep_free(rows) ==
    Update(<<>>, [i \in 1..Len(rows) |-> WithData(rows[i], NoData)])
build_entries(rows) ==
    DelItem(Update(<<>>, [i \in 1..Len(rows) |-> WithData(rows[i], NoData)]), FreeKey)

\* "split the data": the payload of every entry is a slice of the buffer.
split_data(data, header, entries) ==
    [i \in 1..Len(entries) |->
        LET begin == header.data_offset + entries[i].file_offset
            end == begin + entries[i].file_size
        IN [entries[i] EXCEPT !.data = Slice(data, begin, end)]]

\* ShaderCache(data): [ok, err, sc]; sc is None when the constructor raises.
Failed(err) == [ok |-> FALSE, err |-> err, sc |-> None]
ShaderCache_load(data) ==
    IF ~CanUnpack(data, 0, FILECACHE_HEADER_RESV) THEN Failed("struct.error")
    ELSE LET header == unpack_header(data) IN
    IF ~header_accepted(header) THEN Failed("AssertionError")
    ELSE IF ~table_readable(data, header) THEN Failed("struct.error")
    ELSE LET entries == split_data(data, header, build_entries(read_table(data, header))) IN
    IF ~HasKey(entries, TableKey) THEN Failed("KeyError")
    ELSE [ok |-> TRUE, err |-> "",
          sc |-> update_header([original_size |-> Len(data),
                                header |-> header, entries |-> entries])]

\* ShaderCache.calc_size
calc_size_no_header(sc) ==
    SumSeq([i \in 1..Len(sc.entries) |-> sc.entries[i].file_size])
calc_size(sc) ==
    FILECACHE_HEADER_RESV + SumSeq([i \in 1..Len(sc.entries) |-> sc.entries[i].file_size])

\* ShaderCache.write, first loop: the offsets and the encoded table.
assign_offsets_kept(entries) == entries
assign_offsets(entries) ==
    [i \in 1..Len(entries) |->
        [entries[i] EXCEPT !.file_offset =
            SumSeq([j \in 1..(i - 1) |-> entries[j].file_size])]]
encode_table(entries) ==
    Concat([i \in 1..Len(entries) |-> pack_entry(entries[i])])
store_table(entries) ==
    LET walked == assign_offsets(entries)
    IN SetItem(walked, [Get(walked, TableKey) EXCEPT !.data = encode_table(walked)])

\* ShaderCache.write, second loop: the entries written before the first one
\* whose payload fails the assertion (all of them when none does).
payload_ok(e) == e.data # NoData /\ Len(e.data) = e.file_size
written_count(entries) ==
    IF \A i \in 1..Len(entries) : payload_ok(entries[i]) THEN Len(entries)
    ELSE (CHOOSE i \in 1..Len(entries) :
            /\ ~payload_ok(entries[i])
            /\ \A j \in 1..(i - 1) : payload_ok(entries[j])) - 1

\* ShaderCache.write: [ok, out, sc]: whether it returned, the bytes the sink
\* received, and the container it leaves.
write(sc) ==
    LET entries == store_table(sc.entries)
        n == written_count(entries)
        ok == n = Len(entries)
        out == pack_header(sc.header)
                 \o Concat([i \in 1..n |-> entries[i].data])
        after == [sc EXCEPT !.entries = entries]
    IN [ok |-> ok, out |-> out,
        sc |-> IF ok THEN [after EXCEPT !.original_size = calc_size(after)] ELSE after]

\* ------------------------------------------------------------ the file system
\* File names, and the files the program starts with.  A file is its bytes;
\* Missing stands for a name with no file.
Missing == <<-2>>

Name(k) == <<0, 0, 0, 0, 0, 0, 1, k>>
EntryA == [name1 |-> Name(1), name2 |-> Name(2)]
EntryB == [name1 |-> Name(3), name2 |-> Name(4)]
EntryC == [name1 |-> Name(5), name2 |-> Name(6)]
TableEntry == [name1 |-> FILECACHE_FILETABLE_NAME1, name2 |-> FILECACHE_FILETABLE_NAME2]
FreeEntry == [name1 |-> FILECACHE_FILETABLE_FREE_NAME, name2 |-> FILECACHE_FILETABLE_FREE_NAME]

\* A table row, and a payload that starts with a shader header.
Row(names, file_offset, file_size, reserved) ==
    pack_entry([name1 |-> names.name1, name2 |-> names.name2,
                file_offset |-> file_offset, file_size |-> file_size,
                reserved |-> reserved])
pack_shader_header(h) ==
    PackDigits(h.magic) \o PackInt(h.type, 4) \o PackDigits(h.name1) \o PackDigits(h.name2)
Shader(type, names, body) ==
    pack_shader_header([magic |-> SHADER_HEADER_MAGIC, type |-> type,
                        name1 |-> names.name1, name2 |-> names.name2]) \o body
FileOf(magic, file_table_offset, file_table_size, region) ==
    pack_header([magic |-> magic, extra_version |-> 1,
                 data_offset |-> FILECACHE_HEADER_RESV,
                 file_table_offset |-> file_table_offset,
                 file_table_size |-> file_table_size]) \o region

\* a.bin: compact, table first: table, A (a pixel shader), B (3 bytes).
FileA ==
    FileOf(FILECACHE_MAGIC_V2, 0, 96,
        Row(TableEntry, 0, 96, 0) \o Row(EntryA, 96, 25, 7) \o Row(EntryB, 121, 3, 0)
          \o Shader(2, EntryA, <<11>>) \o <<21, 22, 23>>)
\* b.bin: the table is not first and its own row is the second one; two
\* bytes of slack lie between the payload of C and the table.
FileB ==
    FileOf(FILECACHE_MAGIC_V2, 27, 64,
        Shader(0, EntryC, <<31>>) \o <<0, 0>>
          \o Row(EntryC, 0, 25, 0) \o Row(TableEntry, 27, 64, 0))
\* c.bin: a free slot, another payload for A, and an entry of an unknown
\* type; the two payloads start with the same shader header (that of C).
FileC ==
    FileOf(FILECACHE_MAGIC_V2, 0, 128,
        Row(TableEntry, 0, 128, 0) \o Row(FreeEntry, 0, 0, 0)
          \o Row(EntryA, 128, 24, 0) \o Row(EntryC, 152, 26, 9)
          \o Shader(5, EntryC, <<>>) \o Shader(5, EntryC, <<41, 42>>))
\* d.bin: the row of B announces 5 bytes and the file ends after 2 of them.
FileD ==
    FileOf(FILECACHE_MAGIC_V2, 0, 64,
        Row(TableEntry, 0, 64, 0) \o Row(EntryB, 64, 5, 0) \o <<51, 52>>)
\* e.bin: a file of the first version of the format.
FileE ==
    FileOf(FILECACHE_MAGIC, 0, 32, Row(TableEntry, 0, 32, 0))

InputNames == {"a.bin", "b.bin", "c.bin", "e.bin"}
SaveAsNames == {"out.bin"}
AllNames == InputNames \cup SaveAsNames
InitialDisk ==
    [n \in AllNames |->
        CASE n = "a.bin" -> FileA
          [] n = "b.bin" -> FileB
          [] n = "c.bin" -> FileC
          [] n = "e.bin" -> FileE
          [] OTHER -> Missing]

\* The selections a file dialog can return: up to MaxSel distinct existing files.
Selections(disk) ==
    LET existing == {n \in AllNames : disk[n] # Missing}
    IN UNION {{sel \in [1..k -> existing] : \A i, j \in 1..k : sel[i] = sel[j] => i = j}
                : k \in 1..MaxSel}

\* The orders in which a for loop can walk a Python set.
Orders(S) ==
    {o \in [1..Cardinality(S) -> S] : \A i, j \in 1..Cardinality(S) : o[i] = o[j] => i = j}

\* ---------------------------------------------------------------- the state
VARIABLES
    shadercache,   \* ShaderUtils.shadercache: None or a container
    filename,      \* ShaderUtils.filename: "" stands for None
    modified,      \* ShaderUtils.modified
    btnsave,       \* whether the "Save cache" button is enabled
    btnmerge,      \* whether the "Merge another" button is enabled
    btnfixshader,  \* whether the "Unpack cache" button is enabled
    disk,          \* the files: name -> bytes
    folders,       \* the unpack folders: name of the cache -> [exists, files]
    last,          \* the last handler that ran and how it ended
    ops,           \* the number of handlers run so far
    c,             \* a container driven directly through the class
    sink,          \* the bytes of the last write of c
    loaded,        \* the result of the last ShaderCache(data)
    step           \* the last call on the class, and what was done to c so far

appvars == <<shadercache, filename, modified, btnsave, btnmerge, btnfixshader,
             disk, folders, last, ops>>
libvars == <<c, sink, loaded, step>>
vars == <<shadercache, filename, modified, btnsave, btnmerge, btnfixshader,
          disk, folders, last, ops, c, sink, loaded, step>>

NoFolder == [exists |-> FALSE, files |-> {}]

Init ==
    /\ shadercache = None
    /\ filename = ""
    /\ modified = FALSE
    /\ btnsave = FALSE
    /\ btnmerge = FALSE
    /\ btnfixshader = FALSE
    /\ disk = InitialDisk
    /\ folders = [n \in AllNames |-> NoFolder]
    /\ last = [op |-> "start"]
    /\ ops = 0
    /\ c = None
    /\ sink = <<>>
    /\ loaded = [ok |-> FALSE, err |-> "", sc |-> None]
    /\ step = [op |-> "start", ok |-> TRUE, origin |-> "", valid |-> FALSE,
                normalized |-> FALSE, synced |-> FALSE, data |-> <<>>]

\* ----------------------------------------------------- ShaderUtils handlers
\* The Tk main loop runs one handler at a time; a session has MaxOps of them.
Ran ==
    /\ ops < MaxOps
    /\ ops' = ops + 1
    /\ UNCHANGED libvars

\* update_display: the dirty flag and the three buttons it sets.
update_display(sc, fname, mod) ==
    LET mod2 == IF sc # None /\ fname = "" THEN TRUE ELSE mod
    IN [modified |-> mod2,
        btnsave |-> IF sc = None THEN FALSE
                    ELSE IF mod2 THEN TRUE
                    ELSE sc.original_size > calc_size(sc),
        btnmerge |-> sc # None,
        btnfixshader |-> sc # None]

Show(shown) ==
    /\ modified' = shown.modified
    /\ btnsave' = shown.btnsave
    /\ btnmerge' = shown.btnmerge
    /\ btnfixshader' = shown.btnfixshader

\* read_shadercache, for every file of the disk d.
read_shadercache(d) == [n \in AllNames |-> ShaderCache_load(d[n])]

\* The loop of _on_btnopen over filenames[1:]: [ok, sc, read]; when a file
\* fails to load, the exception leaves the entries as updated so far; read
\* counts the files read, filenames[0] included.
RECURSIVE open_rest(_, _, _)
open_rest(reads, sc, names) ==
    IF names = <<>> THEN [ok |-> TRUE, sc |-> sc, read |-> 1]
    ELSE LET r == reads[Head(names)] IN
         IF ~r.ok THEN [ok |-> FALSE, sc |-> sc, read |-> 1]
         ELSE LET more == open_rest(reads,
                              [sc EXCEPT !.entries = Update(sc.entries, r.sc.entries)],
                              Tail(names))
              IN [more EXCEPT !.read = more.read + 1]

\* _on_btnopen
OnBtnOpen ==
    /\ Ran
    /\ UNCHANGED <<disk, folders>>
    /\ \E reads \in {read_shadercache(disk)} :
       \E filenames \in Selections(disk) \cup {<<>>} :
         IF Len(filenames) = 0
         THEN /\ last' = [op |-> "open-cancelled"]
              /\ UNCHANGED <<shadercache, filename, modified,
                             btnsave, btnmerge, btnfixshader>>
         ELSE IF ~reads[filenames[1]].ok
         THEN /\ last' = [op |-> "open", ok |-> FALSE, n |-> Len(filenames), read |-> 0]
              /\ UNCHANGED <<shadercache, filename, modified,
                             btnsave, btnmerge, btnfixshader>>
         ELSE \E rest \in {open_rest(reads, reads[filenames[1]].sc, Tail(filenames))} :
              /\ filename' = IF Len(filenames) = 1 THEN filenames[1] ELSE ""
              /\ last' = [op |-> "open", ok |-> rest.ok, n |-> Len(filenames),
                           read |-> rest.read]
              /\ IF rest.ok
                 THEN \E sc \in {update_header(rest.sc)} :
                      /\ shadercache' = sc
                      /\ Show(update_display(sc, filename', Len(filenames) # 1))
                 ELSE /\ shadercache' = rest.sc
                      /\ modified' = (Len(filenames) # 1)
                      /\ UNCHANGED <<btnsave, btnmerge, btnfixshader>>

\* _on_btnsave
OnBtnSave ==
    /\ Ran
    /\ btnsave
    /\ UNCHANGED folders
    /\ \E target \in (IF filename = "" THEN SaveAsNames \cup {""} ELSE {filename}) :
       \E w \in {write(shadercache)} :
         IF target = ""
         THEN /\ last' = [op |-> "save-cancelled"]
              /\ UNCHANGED <<shadercache, filename, modified, disk,
                             btnsave, btnmerge, btnfixshader>>
         ELSE
           /\ filename' = target
           /\ disk' = [disk EXCEPT ![target] = w.out]
           /\ shadercache' = w.sc
           /\ last' = [op |-> "save", ok |-> w.ok]
           /\ IF w.ok
              THEN Show(update_display(w.sc, target, FALSE))
              ELSE UNCHANGED <<modified, btnsave, btnmerge, btnfixshader>>

\* The loop of _on_btnmerge over the selected files: [ok, entries].
RECURSIVE read_all_first_wins(_, _, _)
read_all_first_wins(reads, all_entries, names) ==
    IF names = <<>> THEN [ok |-> TRUE, entries |-> all_entries]
    ELSE LET r == reads[Head(names)] IN
         IF ~r.ok THEN [ok |-> FALSE, entries |-> all_entries]
         ELSE read_all_first_wins(reads, Update(r.sc.entries, all_entries), Tail(names))
RECURSIVE read_all(_, _, _)
read_all(reads, all_entries, names) ==
    IF names = <<>> THEN [ok |-> TRUE, entries |-> all_entries]
    ELSE LET r == reads[Head(names)] IN
         IF ~r.ok THEN [ok |-> FALSE, entries |-> all_entries]
         ELSE read_all(reads, Update(all_entries, r.sc.entries), Tail(names))

\* for key in new_keys: self.shadercache.entries[key] = all_entries[key]
RECURSIVE add_new(_, _, _)
add_new(entries, all_entries, order) ==
    IF order = <<>> THEN entries
    ELSE add_new(SetItem(entries, Get(all_entries, Head(order))), all_entries, Tail(order))

new_keys_of_all(main_entries, all_entries) == Keys(all_entries) \ {TableKey}
new_keys_of(main_entries, all_entries) == Keys(all_entries) \ Keys(main_entries)
duplicate_keys_of(main_entries, all_entries) == Keys(all_entries) \cap Keys(main_entries)

Range(f) == {f[i] : i \in DOMAIN f}

\* _on_btnmerge
OnBtnMerge ==
    /\ Ran
    /\ btnmerge
    /\ UNCHANGED <<filename, disk, folders>>
    /\ \E reads \in {read_shadercache(disk)} :
       \E filenames \in Selections(disk) \cup {<<>>} :
       \E read \in {read_all(reads, <<>>, filenames)} :
       \E new_keys \in {new_keys_of(shadercache.entries, read.entries)} :
        LET duplicate_keys == duplicate_keys_of(shadercache.entries, read.entries)
            report == [op |-> "merge",
                       self |-> filename \in Range(filenames),
                       files |-> filenames,
                       source |-> Keys(read.entries),
                       total_merge |-> Len(read.entries) - 1,
                       dups |-> Cardinality(duplicate_keys),
                       news |-> Cardinality(new_keys)]
        IN
        IF Len(filenames) = 0
        THEN /\ last' = [op |-> "merge-cancelled"]
             /\ UNCHANGED <<shadercache, modified, btnsave, btnmerge, btnfixshader>>
        ELSE IF ~read.ok
        THEN /\ last' = [op |-> "merge-raised", self |-> filename \in Range(filenames)]
             /\ UNCHANGED <<shadercache, modified, btnsave, btnmerge, btnfixshader>>
        ELSE IF new_keys = {}
        THEN /\ last' = [report EXCEPT !.op = "merge-nothing"]
             /\ UNCHANGED <<shadercache, modified, btnsave, btnmerge, btnfixshader>>
        ELSE \/ /\ last' = [report EXCEPT !.op = "merge-declined"]
                /\ UNCHANGED <<shadercache, modified, btnsave, btnmerge, btnfixshader>>
             \/ \E order \in Orders(new_keys) :
                \E sc \in {update_header(
                              [shadercache EXCEPT !.entries =
                                  add_new(shadercache.entries, read.entries, order)])} :
                    /\ shadercache' = sc
                    /\ last' = report
                    /\ Show(update_display(sc, filename, TRUE))

\* The name _on_unpack gives the file of one entry: the label of the type
\* (with the number, which the label of an unknown type carries) and the names.
shader_type_name(type) ==
    CASE type = 0 -> "VERTEX"
      [] type = 1 -> "GEOMETRY"
      [] type = 2 -> "PIXEL"
      [] OTHER -> "UNKNOWN"
export_name(shader_header) ==
    [label |-> shader_type_name(shader_header.type),
     number |-> IF shader_header.type \in {0, 1, 2} THEN 0 ELSE shader_header.type,
     name1 |-> shader_header.name1, name2 |-> shader_header.name2]

\* The container _on_unpack builds for one entry (lines 316-320).
export_container(entry) ==
    update_header([ShaderCache_new EXCEPT !.entries = SetItem(ShaderCache_new.entries, entry)])

\* open(..., 'wb') and the write: the file replaces one of the same name.
put_file(files, name, bytes) ==
    {f \in files : f.name # name} \cup {[name |-> name, bytes |-> bytes]}

\* The loop of _on_unpack: [ok, files, made]: the files of the folder and the
\* containers built, up to the entry on which an exception ends the loop.
RECURSIVE unpack_loop(_, _, _)
unpack_loop(entries, files, made) ==
    IF entries = <<>> THEN [ok |-> TRUE, files |-> files, made |-> made]
    ELSE LET entry == Head(entries) IN
    IF Key(entry) = TableKey THEN unpack_loop(Tail(entries), files, made)
    ELSE LET s == export_container(entry) IN
    IF ~CanUnpack(entry.data, 0, SHADER_HEADER_SIZE)
    THEN [ok |-> FALSE, files |-> files, made |-> Append(made, s)]
    ELSE LET w == write(s)
             out == put_file(files, export_name(unpack_shader_header(entry.data)), w.out)
         IN IF ~w.ok THEN [ok |-> FALSE, files |-> out, made |-> Append(made, s)]
            ELSE unpack_loop(Tail(entries), out, Append(made, s))

\* _on_unpack
OnUnpack ==
    /\ Ran
    /\ btnfixshader
    /\ UNCHANGED <<shadercache, filename, modified, btnsave, btnmerge, btnfixshader,
                   disk>>
    /\ IF filename = ""
       THEN /\ last' = [op |-> "unpack", outcome |-> "raised"]
            /\ UNCHANGED folders
       ELSE \/ /\ folders[filename].exists
               /\ last' = [op |-> "unpack", outcome |-> "kept"]
               /\ UNCHANGED folders
            \/ \E run \in {unpack_loop(shadercache.entries, {}, <<>>)} :
                  /\ folders' = [folders EXCEPT ![filename] =
                                    [exists |-> TRUE, files |-> run.files]]
                  /\ last' = [op |-> "unpack",
                              outcome |-> IF run.ok THEN "done" ELSE "raised",
                              made |-> run.made]

Next == OnBtnOpen \/ OnBtnSave \/ OnBtnMerge \/ OnUnpack

Spec == Init /\ [][Next]_vars

\* ------------------------------------------------- the class, called directly
\* The calls a caller of the class can make on one container c: ShaderCache(),
\* ShaderCache(data), entries[key] = entry, update_header(), write(f).
\* A behaviour follows one container from its construction.  step remembers the last call (op, ok, and data, the bytes given to
\* ShaderCache(data)) and the history of c: origin (how c was made), valid
\* (every insertion so far was of a new key, neither the table's nor the free
\* one, with a payload as long as its file_size), normalized (update_header
\* ran since the last insertion), synced (sink holds the last write of c and c
\* was not touched since).

\* The buffers given to ShaderCache(data): the five files, each also with
\* the other magic numbers and with other table sizes in its header, and the
\* first file cut short.
Reheader(file, magic, file_table_size) ==
    FileOf(magic, unpack_header(file).file_table_offset, file_table_size,
           SubSeq(file, FILECACHE_HEADER_RESV + 1, Len(file)))
\* The file of a container without shaders: a header and the row of the table.
MinimalFile(extra_version, reserved) ==
    pack_header([magic |-> FILECACHE_MAGIC_V2, extra_version |-> extra_version,
                 data_offset |-> FILECACHE_HEADER_RESV,
                 file_table_offset |-> 0, file_table_size |-> ENTRY_SIZE])
      \o Row(TableEntry, 0, ENTRY_SIZE, reserved)
Buffers ==
    {MinimalFile(0, 5)} \cup
    {Reheader(file, magic, file_table_size) :
        file \in {FileA, FileB, FileC, FileD, FileE},
        magic \in {FILECACHE_MAGIC, FILECACHE_MAGIC_V2, SHADER_HEADER_MAGIC},
        file_table_size \in {0, 32, 33, 64}}
      \cup {FileA, FileB, FileC, FileD, FileE}
      \cup {SubSeq(FileA, 1, n) : n \in {0, 100, 127, 128, 200, 240}}

\* The entries a caller inserts: A, B and C with payloads as long as their
\* file_size (C has none), one under the free key, and B with a payload one
\* byte short of its file_size.
Entry(names, data, file_size, reserved) ==
    WithData([name1 |-> names.name1, name2 |-> names.name2, file_offset |-> 0,
              file_size |-> file_size, reserved |-> reserved], data)
Inserted ==
    {Entry(EntryA, Shader(2, EntryA, <<11>>), 25, 7),
     Entry(EntryB, <<21, 22, 23>>, 3, 0),
     Entry(EntryC, <<>>, 0, 0),
     Entry(FreeEntry, <<21, 22, 23>>, 3, 0),
     Entry(EntryB, <<21, 22, 23>>, 4, 0)}

LibRan == UNCHANGED appvars

\* c = ShaderCache()
New ==
    /\ LibRan
    /\ c = None
    /\ c' = ShaderCache_new
    /\ step' = [op |-> "new", ok |-> TRUE, origin |-> "new", valid |-> TRUE,
                normalized |-> TRUE, synced |-> FALSE, data |-> <<>>]
    /\ UNCHANGED <<sink, loaded>>

\* c = ShaderCache(data); there is no c when the constructor raises.
Load ==
    /\ LibRan
    /\ c = None
    /\ step.op = "start"
    /\ \E data \in Buffers :
       \E r \in {ShaderCache_load(data)} :
         /\ loaded' = r
         /\ c' = r.sc
         /\ step' = IF r.ok
                    THEN [op |-> "load", ok |-> TRUE, origin |-> "load", valid |-> TRUE,
                          normalized |-> TRUE, synced |-> FALSE, data |-> data]
                    ELSE [step EXCEPT !.op = "load", !.ok = FALSE, !.data = data]
    /\ UNCHANGED sink

\* ShaderCache(data) on what write left in the sink; c stays as it is.
Reload ==
    /\ LibRan
    /\ step.op = "write"
    /\ \E r \in {ShaderCache_load(sink)} :
         /\ loaded' = r
         /\ step' = [step EXCEPT !.op = "reload", !.ok = r.ok, !.data = sink]
    /\ UNCHANGED <<c, sink>>

\* c.entries[entry['name1'], entry['name2']] = entry
Insert ==
    /\ LibRan
    /\ c # None
    /\ Len(c.entries) < MaxEntries
    /\ \E entry \in Inserted :
         /\ c' = [c EXCEPT !.entries = SetItem(c.entries, entry)]
         /\ step' = [step EXCEPT !.op = "insert", !.ok = TRUE,
                        !.valid = /\ step.valid
                                  /\ ~HasKey(c.entries, Key(entry))
                                  /\ Key(entry) \notin {TableKey, FreeKey}
                                  /\ Len(entry.data) = entry.file_size,
                        !.normalized = FALSE, !.synced = FALSE, !.data = <<>>]
    /\ UNCHANGED <<sink, loaded>>

\* c.update_header(); a second call right after the first is recorded as
\* "update_header_again".
UpdateHeader ==
    /\ LibRan
    /\ c # None
    /\ step.op # "update_header_again"
    /\ c' = update_header(c)
    /\ step' = [step EXCEPT !.op = IF step.op = "update_header"
                                  THEN "update_header_again" ELSE "update_header",
                   !.ok = TRUE,
                   !.normalized = TRUE, !.synced = FALSE, !.data = <<>>]
    /\ UNCHANGED <<sink, loaded>>

\* c.write(f), f a fresh sink
Write ==
    /\ LibRan
    /\ c # None
    /\ \E w \in {write(c)} :
         /\ sink' = w.out
         /\ c' = w.sc
         /\ step' = [step EXCEPT !.op = "write", !.ok = w.ok, !.synced = TRUE,
                                 !.data = <<>>]
    /\ UNCHANGED loaded

LibNext == New \/ Load \/ Reload \/ Insert \/ UpdateHeader \/ Write

LibSpec == Init /\ [][LibNext]_vars

\* ================================================================== claims
\* What a table row says of an entry, and the rows a payload decodes to.
RowOf(e) ==
    [name1 |-> e.name1, name2 |-> e.name2, file_offset |-> e.file_offset,
     file_size |-> e.file_size, reserved |-> e.reserved]
MappingRows(entries) == [i \in 1..Len(entries) |-> RowOf(entries[i])]
DecodedRows(data) ==
    IF data = NoData THEN <<>>
    ELSE [n \in 1..(Len(data) \div 32) |-> unpack_entry(data, 32 * (n - 1))]
SentinelCount(entries) ==
    Cardinality({i \in 1..Len(entries) : Key(entries[i]) = TableKey})
Sentinel(entries) == Get(entries, TableKey)

\* C1: a container made by ShaderCache(), insertions of new keys (neither the
\* table's nor the free one) with payloads as long as their file_size, and
\* update_header, once written and loaded back, has the same keys in the
\* same order, the same file_size, reserved and payload for every entry but
\* the table's, and the same file_size for the table's.
C1_RoundTrip ==
    (step.op = "reload" /\ step.origin = "new" /\ step.valid /\ step.normalized)
    => /\ loaded.ok
       /\ Len(loaded.sc.entries) = Len(c.entries)
       /\ \A i \in 1..Len(c.entries) :
            LET old == c.entries[i]
                new == loaded.sc.entries[i]
            IN /\ Key(new) = Key(old)
               /\ new.file_size = old.file_size
               /\ Key(old) # TableKey
                    => new.reserved = old.reserved /\ new.data = old.data
C1_Witness ==
    /\ step.op = "reload" /\ step.origin = "new" /\ step.valid /\ step.normalized
    /\ loaded.ok
    /\ Len(c.entries) = 3
    /\ \E i \in 1..3 : c.entries[i].reserved = 7 /\ Len(c.entries[i].data) = 25

\* C2 as claimed: after a load, a construction, or a mutation followed by
\* update_header, there is exactly one table entry and its payload decodes
\* to the rows of the whole mapping.
C2_SentinelDecodes ==
    (c # None /\ step.op \in {"new", "load", "update_header"})
    => /\ SentinelCount(c.entries) = 1
       /\ DecodedRows(Sentinel(c.entries).data) = MappingRows(c.entries)
\* C2 as amended: in those states there is exactly one table entry and its
\* payload is cleared; it is write that fills it, and after a write of such
\* a state the payload decodes to the rows of the whole mapping, in order.
C2_SentinelClearedThenWritten ==
    /\ (c # None /\ step.op \in {"new", "load", "update_header"})
       => /\ SentinelCount(c.entries) = 1
          /\ Sentinel(c.entries).data = NoData
    /\ (step.op = "write" /\ step.normalized)
       => /\ SentinelCount(c.entries) = 1
          /\ Len(Sentinel(c.entries).data) = 32 * Len(c.entries)
          /\ DecodedRows(Sentinel(c.entries).data) = MappingRows(c.entries)
C2_Witness ==
    /\ step.op = "write" /\ step.normalized /\ step.origin = "load"
    /\ Len(c.entries) = 3
    /\ Sentinel(c.entries).file_offset > 0
    /\ DecodedRows(Sentinel(c.entries).data) = MappingRows(c.entries)

\* The merges: a handler that read every selected file; last.source holds
\* the keys of the sources, shadercache the target before and shadercache'
\* the target after.
MergeRan == last'.op \in {"merge", "merge-nothing", "merge-declined"} /\ ops' = ops + 1
KeptAs(old, entries) ==
    /\ HasKey(entries, Key(old))
    /\ Get(entries, Key(old)).data = old.data
    /\ Get(entries, Key(old)).file_size = old.file_size
    /\ Get(entries, Key(old)).reserved = old.reserved
MergeCounts ==
    /\ last'.news = Cardinality(last'.source \ Keys(shadercache.entries))
    /\ last'.dups = Cardinality(last'.source \cap Keys(shadercache.entries))
    /\ last'.op = "merge"
         => /\ Len(shadercache'.entries) = Len(shadercache.entries) + last'.news
            /\ Keys(shadercache'.entries) = Keys(shadercache.entries) \cup last'.source
MergeNoOp ==
    (last'.source \subseteq Keys(shadercache.entries))
       <=> (last'.op = "merge-nothing")
MergeNoOpKeeps ==
    last'.op = "merge-nothing" => shadercache' = shadercache

\* C3 as claimed: a confirmed merge adds |keys(S) - keys(T)| entries and
\* reports |keys(S) /\ keys(T)| duplicates, every entry whose key was in T
\* keeps its payload, file_size and reserved, and when keys(S) is within
\* keys(T) the merge is reported as a no-op and leaves T as it was.
C3_MergeKeepsEveryEntry ==
    [][MergeRan =>
         /\ MergeCounts
         /\ MergeNoOp
         /\ MergeNoOpKeeps
         /\ \A i \in 1..Len(shadercache.entries) :
               KeptAs(shadercache.entries[i], shadercache'.entries)]_vars
\* C3 as amended: the same, for every entry of T but the table entry, whose
\* file_size a confirmed merge sets to the size of the new table.
C3_MergeKeepsShaderEntries ==
    [][MergeRan =>
         /\ MergeCounts
         /\ MergeNoOp
         /\ MergeNoOpKeeps
         /\ \A i \in 1..Len(shadercache.entries) :
               Key(shadercache.entries[i]) # TableKey
                  => KeptAs(shadercache.entries[i], shadercache'.entries)]_vars
\* A confirmed merge of sources that hold A with another payload than the
\* target's, and a new key.
C3_Witness ==
    /\ last.op = "merge" /\ last.dups = 2 /\ last.news = 1
    /\ HasKey(shadercache.entries, Key(EntryA))
    /\ Get(shadercache.entries, Key(EntryA)).reserved = 7
    /\ HasKey(shadercache.entries, Key(EntryC))

\* C4: in the bytes a save writes, the encoded table starts right after the
\* header, at data_offset + file_table_offset, before every other payload.
WrittenFile == disk[filename]
C4_TableAtHeaderOffset ==
    (last.op = "save" /\ last.ok)
    => LET header == unpack_header(WrittenFile)
           at == header.data_offset + header.file_table_offset
       IN /\ header.file_table_offset = 0
          /\ at = FILECACHE_HEADER_RESV
          /\ Slice(WrittenFile, at, at + header.file_table_size)
               = encode_table(shadercache.entries)

\* C5: when a handler that changes the mapping is over (an open that read
\* at least one file, a confirmed merge, the containers an unpack builds),
\* file_table_offset is 0, file_table_size is 32 times the number of entries
\* and the table entry has file_offset 0 and file_size file_table_size.
Normalized(sc) ==
    /\ sc.header.file_table_offset = 0
    /\ sc.header.file_table_size = 32 * Len(sc.entries)
    /\ SentinelCount(sc.entries) = 1
    /\ Sentinel(sc.entries).file_offset = 0
    /\ Sentinel(sc.entries).file_size = sc.header.file_table_size
C5_HeaderNormalized ==
    /\ (last.op = "open" /\ last.read > 0) => Normalized(shadercache)
    /\ last.op = "merge" => Normalized(shadercache)
    /\ (last.op = "unpack" /\ last.outcome # "kept" /\ filename # "")
          => \A i \in 1..Len(last.made) : Normalized(last.made[i])

\* C10: the key (0, 0) is in no mapping the program holds, and in no row of
\* the table a save writes.
C10_NoFreeKey ==
    /\ shadercache # None => ~HasKey(shadercache.entries, FreeKey)
    /\ last.op = "save"
         => /\ \A i \in 1..Len(shadercache.entries) :
                 Key(DecodedRows(Sentinel(shadercache.entries).data)[i]) # FreeKey
            /\ last.ok
                 => LET at == FILECACHE_HEADER_RESV + Sentinel(shadercache.entries).file_offset
                    IN \A n \in 0..(Len(shadercache.entries) - 1) :
                         Key(unpack_entry(WrittenFile, at + 32 * n)) # FreeKey
\* c.bin, which has a free slot, was opened and saved.
C10_Witness ==
    /\ last.op = "save" /\ last.ok
    /\ filename = "c.bin"
    /\ Len(shadercache.entries) = 3
    /\ Len(WrittenFile) = 274

\* C6: for a normalized container, calc_size() is 128 plus the file_size of
\* every entry, and a write that returns has given the sink that many bytes.
RECURSIVE TotalFileSize(_)
TotalFileSize(entries) ==
    IF entries = <<>> THEN 0
    ELSE entries[Len(entries)].file_size + TotalFileSize(SubSeq(entries, 1, Len(entries) - 1))
C6_SizeIsBytesWritten ==
    /\ (c # None /\ step.normalized)
         => calc_size(c) = 128 + TotalFileSize(c.entries)
    /\ (step.op = "write" /\ step.ok /\ step.normalized)
         => /\ Len(sink) = calc_size(c)
            /\ c.original_size = Len(sink)
C6_Witness ==
    /\ step.op = "write" /\ step.ok /\ step.normalized
    /\ Len(c.entries) = 3
    /\ Len(sink) = 128 + 96 + 25 + 3

\* C7: a write of a container that was loaded or constructed, and to which
\* only well-formed entries were added, each insertion followed by
\* update_header, finds every payload as long as its file_size and returns.
C7_WriteNeverFails ==
    (step.op = "write" /\ step.origin \in {"new", "load"} /\ step.valid /\ step.normalized)
    => /\ step.ok
       /\ \A i \in 1..Len(c.entries) : Len(c.entries[i].data) = c.entries[i].file_size

\* C8: ShaderCache(data) raises when a row of the table places a payload
\* beyond the end of the buffer.
RowsBeyondBuffer(data) ==
    /\ CanUnpack(data, 0, FILECACHE_HEADER_RESV)
    /\ table_readable(data, unpack_header(data))
    /\ \E n \in 1..(unpack_header(data).file_table_size \div 32) :
         LET row == read_table(data, unpack_header(data))[n]
         IN unpack_header(data).data_offset + row.file_offset + row.file_size > Len(data)
C8_LoadChecksBounds ==
    (step.op = "load" /\ RowsBeyondBuffer(step.data)) => (~loaded.ok /\ c = None)

\* C9: ShaderCache(data) raises, and gives no container, whenever the magic
\* is not 0x8371b695 or file_table_size is not a multiple of 32.
MagicBytesV2 == <<149, 182, 113, 131>>
MagicBytesV1 == <<148, 182, 113, 131>>
C9_LoadRejectsHeader ==
    (step.op = "load" /\ Len(step.data) >= 128)
    => ((SubSeq(step.data, 1, 4) # MagicBytesV2 \/ step.data[25] % 32 # 0)
          => (~loaded.ok /\ loaded.sc = None /\ c = None))
C9_Witness ==
    /\ step.op = "load" /\ ~loaded.ok /\ c = None
    /\ Len(step.data) = 160
    /\ SubSeq(step.data, 1, 4) = MagicBytesV1
    /\ step.data[25] = 32

\* What ShaderCache(data) makes of the selected files (reads is
\* read_shadercache of the disk), and the last of them that holds a key.
SourceEntries(reads, name) == reads[name].sc.entries
LastHolder(reads, files, k) ==
    CHOOSE i \in 1..Len(files) :
        /\ HasKey(SourceEntries(reads, files[i]), k)
        /\ \A j \in (i + 1)..Len(files) : ~HasKey(SourceEntries(reads, files[j]), k)

\* C11: in a confirmed merge of several files, a key that the target did
\* not hold gets the entry of the last selected file that holds it, whole
\* (payload, file_size, reserved, file_offset); a key the target held keeps
\* the target's entry whatever the files hold (for the table entry, whose
\* offset, size and payload update_header recomputes, its reserved field).
C11_LastSourceWinsTargetKept ==
    [][(last'.op = "merge" /\ ops' = ops + 1) =>
         \A reads \in {read_shadercache(disk)} :
         \A k \in Keys(shadercache'.entries) :
            IF HasKey(shadercache.entries, k)
            THEN IF k = TableKey
                 THEN Get(shadercache'.entries, k).reserved
                         = Get(shadercache.entries, k).reserved
                 ELSE Get(shadercache'.entries, k) = Get(shadercache.entries, k)
            ELSE /\ \E i \in 1..Len(last'.files) :
                        HasKey(SourceEntries(reads, last'.files[i]), k)
                 /\ Get(shadercache'.entries, k)
                      = Get(SourceEntries(reads,
                                last'.files[LastHolder(reads, last'.files, k)]), k)]_vars
\* A confirmed merge of a.bin then c.bin into the container of b.bin: A, new,
\* has the payload of c.bin (24 bytes, not the 25 of a.bin) and C, held by
\* the target, keeps its own (25 bytes, not the 26 of c.bin).
C11_Witness ==
    /\ last.op = "merge" /\ last.files = <<"a.bin", "c.bin">>
    /\ last.news = 2 /\ last.dups = 2
    /\ Get(shadercache.entries, Key(EntryA)).data = Shader(5, EntryC, <<>>)
    /\ Get(shadercache.entries, Key(EntryA)).reserved = 0
    /\ Len(Get(shadercache.entries, Key(EntryC)).data) = 25
    /\ Get(SourceEntries(read_shadercache(disk), "a.bin"), Key(EntryA)).reserved = 7
    /\ Len(Get(SourceEntries(read_shadercache(disk), "c.bin"), Key(EntryC)).data) = 26

\* The entries _on_unpack exports, and what one file of the folder holds.
ShaderEntries(entries) == SelectSeq(entries, LAMBDA e : Key(e) # TableKey)
HoldsJust(bytes, entry) ==
    LET r == ShaderCache_load(bytes)
    IN /\ r.ok
       /\ Len(r.sc.entries) = 2
       /\ Keys(r.sc.entries) = {TableKey, Key(entry)}
       /\ Get(r.sc.entries, Key(entry)).data = entry.data
       /\ Get(r.sc.entries, Key(entry)).file_size = entry.file_size
       /\ Get(r.sc.entries, Key(entry)).reserved = entry.reserved

\* C12: an unpack that exported every entry leaves as many files as the
\* container has entries other than the table entry, and every such entry
\* has a file of its own that holds the table entry and that entry only.
C12_OneOutputPerEntry ==
    (last.op = "unpack" /\ last.outcome = "done")
    => LET exported == ShaderEntries(shadercache.entries)
           files == folders[filename].files
       IN /\ Cardinality(files) = Len(exported)
          /\ \A i \in 1..Len(exported) :
                \E f \in files : HoldsJust(f.bytes, exported[i])

\* C13: an unpack that fails on one entry still exports the others: every
\* entry whose payload starts with a shader header has its file in the
\* folder, whether it comes before or after the entry that failed.
Exportable(e) ==
    Key(e) # TableKey /\ CanUnpack(e.data, 0, SHADER_HEADER_SIZE) /\ payload_ok(e)
C13_ExportContinuesAfterFailure ==
    (last.op = "unpack" /\ last.outcome = "raised" /\ filename # "")
    => \A i \in 1..Len(shadercache.entries) :
          Exportable(shadercache.entries[i])
             => \E f \in folders[filename].files :
                   f.name = export_name(unpack_shader_header(shadercache.entries[i].data))

\* C14: update_header called a second time right after a first call leaves
\* the container (the header, every entry, the table entry's file_offset,
\* file_size and cleared payload) as the first call left it.
C14_UpdateHeaderIdempotent ==
    [][(step'.op = "update_header_again") => c' = c]_vars
\* Two calls in a row on a container of three entries whose table entry is
\* not the first, after an insertion had left the header out of date.
C14_Witness ==
    /\ step.op = "update_header_again" /\ step.origin = "load"
    /\ Len(c.entries) = 3
    /\ Key(c.entries[1]) # TableKey
    /\ c.header.file_table_size = 96
    /\ Sentinel(c.entries).file_size = 96
    /\ Sentinel(c.entries).file_offset = 0
    /\ Sentinel(c.entries).data = NoData

\* The 160 bytes of the minimal file, byte by byte: magic 0x8371b695,
\* data_offset 128, file_table_offset 0, file_table_size 32, then the row of
\* the table entry with file_offset 0 and file_size 32.
IsMinimalFile(data) ==
    /\ Len(data) = 160
    /\ SubSeq(data, 1, 4) = MagicBytesV2
    /\ SubSeq(data, 9, 16) = <<128, 0, 0, 0, 0, 0, 0, 0>>
    /\ SubSeq(data, 17, 24) = <<0, 0, 0, 0, 0, 0, 0, 0>>
    /\ SubSeq(data, 25, 28) = <<32, 0, 0, 0>>
    /\ SubSeq(data, 129, 136) = <<239, 239, 239, 239, 239, 239, 239, 239>>
    /\ SubSeq(data, 137, 144) = <<254, 254, 254, 254, 254, 254, 254, 254>>
    /\ SubSeq(data, 145, 152) = <<0, 0, 0, 0, 0, 0, 0, 0>>
    /\ SubSeq(data, 153, 156) = <<32, 0, 0, 0>>
OnlyTableEntry(sc) ==
    /\ Len(sc.entries) = 1
    /\ Key(sc.entries[1]) = TableKey
    /\ sc.entries[1].file_offset = 0
    /\ sc.entries[1].file_size = 32
    /\ sc.entries[1].data = NoData
    /\ sc.header.magic = FILECACHE_MAGIC_V2
    /\ sc.header.data_offset = 128
    /\ sc.header.file_table_offset = 0
    /\ sc.header.file_table_size = 32

\* C15: ShaderCache(data) on the minimal 160-byte file gives a container
\* whose only entry is the table entry and whose calc_size() is 160, and
\* ShaderCache() gives a container in that same state.
C15_MinimalEmptyContainer ==
    /\ (step.op = "load" /\ IsMinimalFile(step.data))
         => (loaded.ok /\ c # None /\ OnlyTableEntry(c) /\ calc_size(c) = 160)
    /\ step.op = "new"
         => (OnlyTableEntry(c) /\ calc_size(c) = 160)
\* The minimal file loaded, with extra_version 0 and a reserved field of 5
\* in its row.
C15_Witness ==
    /\ step.op = "load" /\ IsMinimalFile(step.data) /\ loaded.ok
    /\ step.data[5] = 0 /\ step.data[157] = 5
    /\ calc_size(c) = 160
    /\ c.original_size = 160

\* C16: after write, the first entry of the mapping has file_offset 0 and
\* every other one starts where the one before it ends; the table write
\* built has one row per entry, in mapping order, with that file_offset and
\* the entry's file_size; and in the bytes of a write that returned, the
\* table and every payload lie at data_offset + file_offset.
Compact(entries) ==
    /\ entries[1].file_offset = 0
    /\ \A i \in 2..Len(entries) :
          entries[i].file_offset = entries[i - 1].file_offset + entries[i - 1].file_size
C16_CompactLayout ==
    step.op = "write"
    => /\ Compact(c.entries)
       /\ Len(DecodedRows(Sentinel(c.entries).data)) = Len(c.entries)
       /\ \A i \in 1..Len(c.entries) :
             LET row == DecodedRows(Sentinel(c.entries).data)[i]
             IN /\ <<row.name1, row.name2>> = Key(c.entries[i])
                /\ row.file_offset = c.entries[i].file_offset
                /\ row.file_size = c.entries[i].file_size
       /\ step.ok
            => /\ Len(sink) = 128 + c.entries[Len(c.entries)].file_offset
                                  + c.entries[Len(c.entries)].file_size
               /\ \A i \in 1..Len(c.entries) :
                     SubSeq(sink, 128 + c.entries[i].file_offset + 1,
                                  128 + c.entries[i].file_offset + c.entries[i].file_size)
                        = c.entries[i].data
\* A write that returned, of three entries of which the table entry is the
\* second: C at 0, the table at 25, A at 121.
C16_Witness ==
    /\ step.op = "write" /\ step.ok
    /\ Len(c.entries) = 3
    /\ Key(c.entries[2]) = TableKey
    /\ c.entries[1].file_size = 25
    /\ c.entries[2].file_offset = 25 /\ c.entries[2].file_size = 96
    /\ c.entries[3].file_offset = 121 /\ c.entries[3].file_size = 25
    /\ Len(sink) = 274

\* C17: a write that fails the check len(payload) = file_size has given no
\* byte to the sink, and leaves original_size as it was.
C17_NothingEmittedOnFailure ==
    [][(step'.op = "write" /\ ~step'.ok /\ c # None)
          => (sink' = <<>> /\ c'.original_size = c.original_size)]_vars

\* C18: a merge whose selection includes the file that is open stops after
\* reporting the error: the container, with its header and its entries, and
\* the modified flag are left as they were, whatever the other files hold.
SelfMergeRan ==
    /\ ops' = ops + 1
    /\ last'.op \in {"merge", "merge-nothing", "merge-declined", "merge-raised"}
    /\ last'.self
C18_SelfMergeRejected ==
    [][SelfMergeRan => (shadercache' = shadercache /\ modified' = modified)]_vars

====
